---- MODULE Spec2Model ----
(***************************************************************************)
(* A model of tensorflow/tools/docs/build_comprehensive_java_api_docs.py:  *)
(* the revision synchronizer (clone_or_update_repo), the directory overlay *)
(* engine (overlay, shutil.copytree), the source composer                  *)
(* (build_comprehensive_java_docs) and the fallback controller (main,      *)
(* build_traditional_tensorflow_java_docs).                                *)
(*                                                                         *)
(* A file system is a record [d, f]: d is the set of paths that are        *)
(* directories, f maps the paths that are regular files to their content.  *)
(* A path is a sequence of names; <<>> is the root of the tree.            *)
(***************************************************************************)
EXTENDS Integers, Sequences, FiniteSets, TLC

VARIABLES
  pc,             \* position of the running operation
  disk,           \* the file system holding the merged trees
  h,              \* the call under test of the overlay engine: arguments, pre-state, outcome
  FLAGS,          \* the command-line flags: gen_ops, tensorflow_java_repo
  HAS_GITPYTHON,  \* whether the git library could be imported
  TF_JAVA_SOURCE_PATH,  \* the tree of the locally checked-in primary sources
  remote,         \* per repository: the commit its pinned revision names at the remote (0: none)
  repos,          \* per repository: the local working copy
  merged_source,  \* main's local variable: the path of the merged tree
  exc,            \* the exception raised last: its type and the step that raised it
  trace,          \* the steps run so far, in order
  gitlog,         \* the revision-control operations attempted so far, in order
  notices,        \* the paths overlay printed an overwrite warning for, in order
  calls           \* the calls of clone_or_update_repo made on its own, with their outcomes

vars == <<pc, disk, h, FLAGS, HAS_GITPYTHON, TF_JAVA_SOURCE_PATH, remote, repos,
          merged_source, exc, trace, gitlog, notices, calls>>

(***************************************************************************)
(* Bounds.                                                                 *)
(***************************************************************************)
\* number of distinct file contents in the overlay engine's test trees
MaxData == 2

\* the commits the remote's pinned revision may come to name, one after the other
MaxCommit == 2

\* calls of clone_or_update_repo made in one run of the synchronizer on its own
MaxCalls == 2

\* the pieces a documentation file given to the version updater is made of, at most
MaxPieces == 2

(***************************************************************************)
(* Paths and trees.                                                        *)
(***************************************************************************)
Parent(p) == SubSeq(p, 1, Len(p) - 1)

IsPrefix(p, q) == Len(p) <= Len(q) /\ SubSeq(q, 1, Len(p)) = p

\* the proper ancestors of p, the root included
Ancestors(p) == {SubSeq(p, 1, n) : n \in 0..(Len(p) - 1)}

IsFile(fs, p) == p \in DOMAIN fs.f

IsDir(fs, p) == p \in fs.d

\* pathlib.Path.exists
Exists(fs, p) == IsDir(fs, p) \/ IsFile(fs, p)

\* the paths of fs at or below p
Under(fs, p) == {q \in fs.d \cup DOMAIN fs.f : IsPrefix(p, q)}

\* a tree holding only its root directory
EmptyDir == [d |-> {<<>>}, f |-> <<>>]

\* the tree rooted at path p of fs, its paths made relative to p
Subtree(fs, p) ==
  LET rel(q) == SubSeq(q, Len(p) + 1, Len(q))
      fl == {q \in DOMAIN fs.f : IsPrefix(p, q)}
  IN [d |-> {rel(q) : q \in {x \in fs.d : IsPrefix(p, x)}},
      f |-> [r \in {rel(q) : q \in fl} |-> fs.f[p \o r]]]

\* the outcome of a file-system call: the exception it raised ("" for none) and the
\* file system it left
Ok(fs) == [ok |-> TRUE, exc |-> "", fs |-> fs]

Raise(e, fs) == [ok |-> FALSE, exc |-> e, fs |-> fs]

(***************************************************************************)
(* The library calls the overlay engine is made of.                        *)
(***************************************************************************)
\* os.mkdir: one directory, whose parent must be a directory
os_mkdir(fs, p) ==
  IF Exists(fs, p) THEN Raise("FileExistsError", fs)
  ELSE IF \E a \in Ancestors(p) : IsFile(fs, a) THEN Raise("NotADirectoryError", fs)
  ELSE IF ~IsDir(fs, Parent(p)) THEN Raise("FileNotFoundError", fs)
  ELSE Ok([fs EXCEPT !.d = @ \cup {p}])

\* pathlib.Path.mkdir(parents, exist_ok)
RECURSIVE mkdir(_, _, _, _)
mkdir(fs, p, parents, exist_ok) ==
  LET r == os_mkdir(fs, p)
  IN IF r.ok THEN r
     ELSE IF r.exc = "FileNotFoundError"
       THEN IF ~parents THEN r
            ELSE LET up == mkdir(fs, Parent(p), TRUE, TRUE)
                 IN IF up.ok THEN mkdir(up.fs, p, FALSE, exist_ok) ELSE up
     ELSE IF exist_ok /\ IsDir(fs, p) THEN Ok(fs)
     ELSE r

\* os.makedirs(dst, exist_ok=False), the first thing shutil.copytree does
RECURSIVE makedirs(_, _)
makedirs(fs, p) ==
  LET head == IF p # <<>> /\ ~Exists(fs, Parent(p)) /\ Parent(p) # <<>>
              THEN makedirs(fs, Parent(p))
              ELSE Ok(fs)
      \* a FileExistsError of the recursive call is passed over, any other is raised
      fs1 == head.fs
  IN IF ~head.ok /\ head.exc # "FileExistsError" THEN head
     ELSE os_mkdir(fs1, p)

\* shutil.copyfile(from_path, to_path): the content written to the path to
copyfile(fs, data, to) ==
  IF IsDir(fs, to) THEN Raise("IsADirectoryError", fs)
  ELSE IF \E a \in Ancestors(to) : IsFile(fs, a) THEN Raise("NotADirectoryError", fs)
  ELSE IF ~IsDir(fs, Parent(to)) THEN Raise("FileNotFoundError", fs)
  ELSE Ok([fs EXCEPT !.f = (to :> data) @@ @])

\* the tree from placed at path dst of fs
Mount(from, fs, dst) ==
  [d |-> fs.d \cup {dst \o r : r \in from.d},
   f |-> [q \in {dst \o r : r \in DOMAIN from.f} |-> from.f[SubSeq(q, Len(dst) + 1, Len(q))]]
         @@ fs.f]

\* copytree as with dirs_exist_ok=True: an existing destination is merged into
copytree_dirs_exist_ok(from, fs, dst) ==
  LET m == mkdir(fs, dst, TRUE, TRUE)
  IN IF m.ok THEN Ok(Mount(from, m.fs, dst)) ELSE m

\* shutil.copytree(from_root, dst): replace-tree. dst and its missing parents are made
\* first (dst must not exist), then every entry of from_root is copied below it
copytree(from, fs, dst) ==
  LET m == makedirs(fs, dst)
  IN IF m.ok THEN Ok(Mount(from, m.fs, dst)) ELSE m

\* shutil.rmtree(p)
rmtree(fs, p) ==
  [d |-> {q \in fs.d : ~IsPrefix(p, q)},
   f |-> [q \in {x \in DOMAIN fs.f : ~IsPrefix(p, x)} |-> fs.f[q]]]

(***************************************************************************)
(* pathlib.Path.rglob('*'): every directory in depth-first order yields    *)
(* its entries, in the order the operating system lists them.              *)
(***************************************************************************)
Children(from, dir) ==
  {q \in (from.d \cup DOMAIN from.f) : q # <<>> /\ Parent(q) = dir}

RECURSIVE Listings(_)
\* the orders in which a directory's entries may be listed
Listings(S) ==
  IF S = {} THEN {<<>>}
  ELSE UNION {{<<x>> \o s : s \in Listings(S \ {x})} : x \in S}

RECURSIVE rglob(_, _), rglob_each(_, _)
rglob(from, dir) ==
  UNION {{listing \o rest :
            rest \in rglob_each(from, SelectSeq(listing, LAMBDA q : IsDir(from, q)))} :
         listing \in Listings(Children(from, dir))}

rglob_each(from, dirs) ==
  IF dirs = <<>> THEN {<<>>}
  ELSE {a \o b : a \in rglob(from, Head(dirs)), b \in rglob_each(from, Tail(dirs))}

(***************************************************************************)
(* overlay(from_root, to_root).                                            *)
(***************************************************************************)
\* the state of a running overlay: outcome so far and the notices printed
OvStart(fs) == [ok |-> TRUE, exc |-> "", fs |-> fs, notices |-> <<>>]

OvStep(st, r) == [ok |-> r.ok, exc |-> r.exc, fs |-> r.fs, notices |-> st.notices]

\* overlay_entry with the copy made only when the destination holds no file yet
overlay_entry_keep_existing(from, st, to_root, rel) ==
  LET to_path == to_root \o rel
  IN IF IsFile(from, rel)
     THEN IF Exists(st.fs, to_path)
          THEN [st EXCEPT !.notices = Append(st.notices, to_path)]
          ELSE LET m == mkdir(st.fs, Parent(to_path), TRUE, TRUE)
               IN IF m.ok THEN OvStep(st, copyfile(m.fs, from.f[rel], to_path))
                  ELSE OvStep(st, m)
     ELSE OvStep(st, mkdir(st.fs, to_path, FALSE, TRUE))

\* overlay_entry with an existing file overwritten without the warning
overlay_entry_silent(from, st, to_root, rel) ==
  LET to_path == to_root \o rel
  IN IF IsFile(from, rel)
     THEN IF Exists(st.fs, to_path)
          THEN OvStep(st, copyfile(st.fs, from.f[rel], to_path))
          ELSE LET m == mkdir(st.fs, Parent(to_path), TRUE, TRUE)
               IN IF m.ok THEN OvStep(st, copyfile(m.fs, from.f[rel], to_path))
                  ELSE OvStep(st, m)
     ELSE OvStep(st, mkdir(st.fs, to_path, FALSE, TRUE))

\* overlay_entry with a directory of the source made without exist_ok
overlay_entry_dirs_once(from, st, to_root, rel) ==
  LET to_path == to_root \o rel
  IN IF IsFile(from, rel)
     THEN IF Exists(st.fs, to_path)
          THEN [OvStep(st, copyfile(st.fs, from.f[rel], to_path))
                  EXCEPT !.notices = Append(st.notices, to_path)]
          ELSE LET m == mkdir(st.fs, Parent(to_path), TRUE, TRUE)
               IN IF m.ok THEN OvStep(st, copyfile(m.fs, from.f[rel], to_path))
                  ELSE OvStep(st, m)
     ELSE OvStep(st, mkdir(st.fs, to_path, FALSE, FALSE))

\* the body of overlay's loop for the entry at relative path rel
overlay_entry(from, st, to_root, rel) ==
  LET to_path == to_root \o rel
  IN IF IsFile(from, rel)
     THEN IF Exists(st.fs, to_path)
          THEN [OvStep(st, copyfile(st.fs, from.f[rel], to_path))
                  EXCEPT !.notices = Append(st.notices, to_path)]
          ELSE LET m == mkdir(st.fs, Parent(to_path), TRUE, TRUE)
               IN IF m.ok THEN OvStep(st, copyfile(m.fs, from.f[rel], to_path))
                  ELSE OvStep(st, m)
     ELSE OvStep(st, mkdir(st.fs, to_path, FALSE, TRUE))

RECURSIVE overlay_loop(_, _, _, _, _)
overlay_loop(from, st, to_root, order, i) ==
  IF i > Len(order) \/ ~st.ok THEN st
  ELSE overlay_loop(from, overlay_entry(from, st, to_root, order[i]), to_root, order, i + 1)

\* overlay, its entries visited in the given order (one of rglob(from, <<>>))
overlay(from, fs, to_root, order) == overlay_loop(from, OvStart(fs), to_root, order, 1)

(***************************************************************************)
(* The external repositories and their pinned revisions.                   *)
(***************************************************************************)
Repos == {"tfjava", "ndarray"}

TENSORFLOW_JAVA_VERSION == "v1.1.0"

NDARRAY_VERSION == "v1.0.0"

\* the subtrees of each repository that the composer places
Layers(name) ==
  IF name = "tfjava" THEN {"core", "gen", "proto", "exceptions", "c_api", "framework"}
  ELSE {"ndarray"}

\* a path that does not exist
NoTree == [d |-> {}, f |-> <<>>]

\* a working tree with none of the subtrees
NoCheckout(name) == [l \in Layers(name) |-> NoTree]

\* a local path that does not exist
NoRepo(name) == [exists |-> FALSE, ref |-> 0, head |-> 0, wt |-> NoCheckout(name)]

(***************************************************************************)
(* Revision control. A working copy is [exists, ref, head, wt]: whether    *)
(* the local path exists, the commit the pinned revision names locally     *)
(* (0: unknown), the commit checked out when that is the pinned revision's *)
(* (0: another), and the working tree. rem is the commit the revision      *)
(* names at the remote, net_ok whether the remote can be reached.          *)
(***************************************************************************)
\* git clone: the local path is made and holds the remote's revisions; a failed clone
\* leaves no local path
git_clone(repo, rem, net_ok) ==
  IF net_ok THEN [ok |-> TRUE, repo |-> [repo EXCEPT !.exists = TRUE, !.ref = rem, !.head = 0]]
  ELSE [ok |-> FALSE, repo |-> repo]

\* git fetch with the revision moved to what the remote names now, as a pull does
git_fetch_moving(repo, rem, net_ok) ==
  IF net_ok THEN [ok |-> TRUE, repo |-> [repo EXCEPT !.ref = rem]]
  ELSE [ok |-> FALSE, repo |-> repo]

\* git fetch origin: revisions new to the working copy are added, the ones it holds
\* are not moved
git_fetch(repo, rem, net_ok) ==
  IF net_ok THEN [ok |-> TRUE, repo |-> [repo EXCEPT !.ref = IF @ = 0 THEN rem ELSE @]]
  ELSE [ok |-> FALSE, repo |-> repo]

\* git checkout <revision>: fails when the working copy does not know the revision
git_checkout(repo, content) ==
  IF repo.ref # 0
  THEN [ok |-> TRUE, repo |-> [repo EXCEPT !.head = repo.ref, !.wt = content]]
  ELSE [ok |-> FALSE, repo |-> repo]

GitOp(op, name, rev, ok) == [op |-> op, repo |-> name, rev |-> rev, ok |-> ok]

\* the exception a failed revision-control operation raises
GitError(gitpython) == IF gitpython THEN "GitCommandError" ELSE "CalledProcessError"

\* clone_or_update_repo with the failure of its first operation passed over
clone_or_update_repo_lenient(repo, name, version_tag, rem, content, net_ok, gitpython) ==
  LET first == IF ~repo.exists THEN git_clone(repo, rem, net_ok)
               ELSE git_fetch(repo, rem, net_ok)
      op1 == GitOp(IF ~repo.exists THEN "clone" ELSE "fetch", name, "", first.ok)
      co == git_checkout(first.repo, content)
  IN [ok |-> co.ok, exc |-> IF co.ok THEN "" ELSE GitError(gitpython), repo |-> co.repo,
      ops |-> <<op1, GitOp("checkout", name, version_tag, co.ok)>>]

\* clone_or_update_repo with a failed clone or fetch attempted a second time
clone_or_update_repo_retrying(repo, name, version_tag, rem, content, net_ok, gitpython) ==
  LET first == IF ~repo.exists THEN git_clone(repo, rem, net_ok)
               ELSE git_fetch(repo, rem, net_ok)
      op1 == GitOp(IF ~repo.exists THEN "clone" ELSE "fetch", name, "", first.ok)
      co == git_checkout(first.repo, content)
  IN IF ~first.ok
     THEN [ok |-> FALSE, exc |-> GitError(gitpython), repo |-> first.repo,
           ops |-> <<op1, op1>>]
     ELSE [ok |-> co.ok, exc |-> IF co.ok THEN "" ELSE GitError(gitpython), repo |-> co.repo,
           ops |-> <<op1, GitOp("checkout", name, version_tag, co.ok)>>]

\* clone_or_update_repo(repo_url, local_path, version_tag): the outcome, the working
\* copy it leaves and the operations it attempted. Both branches (the git library, the
\* git command run as a subprocess) perform the same operations
clone_or_update_repo(repo, name, version_tag, rem, content, net_ok, gitpython) ==
  LET first == IF ~repo.exists THEN git_clone(repo, rem, net_ok)
               ELSE git_fetch(repo, rem, net_ok)
      op1 == GitOp(IF ~repo.exists THEN "clone" ELSE "fetch", name, "", first.ok)
      co == git_checkout(first.repo, content)
  IN IF ~first.ok
     THEN [ok |-> FALSE, exc |-> GitError(gitpython), repo |-> first.repo, ops |-> <<op1>>]
     ELSE [ok |-> co.ok, exc |-> IF co.ok THEN "" ELSE GitError(gitpython), repo |-> co.repo,
           ops |-> <<op1, GitOp("checkout", name, version_tag, co.ok)>>]

Version(name) == IF name = "tfjava" THEN TENSORFLOW_JAVA_VERSION ELSE NDARRAY_VERSION

(***************************************************************************)
(* Values of the variables an operation run on its own does not use.       *)
(***************************************************************************)
NoExc == [type |-> "", at |-> ""]

NoCall == [op |-> "none", from |-> [d |-> {<<>>}, f |-> <<>>], to_root |-> <<>>,
           pre |-> [d |-> {<<>>}, f |-> <<>>], ok |-> TRUE, exc |-> "", notices |-> <<>>]

NoFlags == [gen_ops |-> FALSE, tensorflow_java_repo |-> FALSE]

mainVars == <<FLAGS, TF_JAVA_SOURCE_PATH, merged_source, exc, trace, notices>>

MainUnused ==
  /\ FLAGS = NoFlags
  /\ TF_JAVA_SOURCE_PATH = NoTree
  /\ merged_source = <<>>
  /\ exc = NoExc
  /\ trace = <<>>
  /\ notices = <<>>

gitVars == <<HAS_GITPYTHON, remote, repos, gitlog, calls>>

GitUnused ==
  /\ HAS_GITPYTHON = TRUE
  /\ remote = [r \in Repos |-> 0]
  /\ repos = [r \in Repos |-> NoRepo(r)]
  /\ gitlog = <<>>
  /\ calls = <<>>

(***************************************************************************)
(* The revision synchronizer called on its own: up to MaxCalls calls of    *)
(* clone_or_update_repo, while the remote's revision may move.             *)
(***************************************************************************)
\* a local path as a run may find it: absent, or a working copy left by an earlier run
FoundRepos(name, rem) ==
  {NoRepo(name)} \cup
  {w \in {[exists |-> TRUE, ref |-> c, head |-> hd, wt |-> NoCheckout(name)] :
            c \in {0, rem}, hd \in {0, rem}} : w.head \in {0, w.ref}}

InitSync ==
  /\ pc = "sync"
  /\ disk = EmptyDir
  /\ h = NoCall
  /\ MainUnused
  /\ HAS_GITPYTHON \in BOOLEAN
  /\ remote \in [Repos -> 0..1]
  /\ repos \in [Repos -> UNION {FoundRepos(r, 1) : r \in Repos}]
  /\ \A r \in Repos : repos[r] \in FoundRepos(r, remote[r])
  /\ gitlog = <<>>
  /\ calls = <<>>

\* one call clone_or_update_repo(url of r, path of r, Version(r))
SyncCall ==
  /\ pc = "sync"
  /\ Len(calls) < MaxCalls
  /\ \E r \in Repos, net_ok \in BOOLEAN :
       LET res == clone_or_update_repo(repos[r], r, Version(r), remote[r], NoCheckout(r),
                                       net_ok, HAS_GITPYTHON)
       IN /\ repos' = [repos EXCEPT ![r] = res.repo]
          /\ gitlog' = gitlog \o res.ops
          /\ calls' = Append(calls, [repo |-> r, existed |-> repos[r].exists,
                                     reachable |-> net_ok, ok |-> res.ok,
                                     head |-> res.repo.head, ops |-> res.ops])
  /\ UNCHANGED <<pc, disk, h, HAS_GITPYTHON, remote, mainVars>>

\* the remote moves the pinned revision to a new commit
RemoteMoves ==
  /\ pc = "sync"
  /\ \E r \in Repos :
       /\ remote[r] < MaxCommit
       /\ remote' = [remote EXCEPT ![r] = @ + 1]
  /\ UNCHANGED <<pc, disk, h, HAS_GITPYTHON, repos, gitlog, calls, mainVars>>

NextSync == SyncCall \/ RemoteMoves

SpecSync == InitSync /\ [][NextSync]_vars

(***************************************************************************)
(* The overlay engine called on its own: any small source tree placed on   *)
(* any small destination.                                                  *)
(***************************************************************************)
TestPaths == {<<"a">>, <<"c">>, <<"a", "c">>}

TestData == 1..MaxData

WellFormed(t) ==
  \A p \in (t.d \cup DOMAIN t.f) : p = <<>> \/ IsDir(t, Parent(p))

\* every tree over TestPaths, its root a directory
TestTrees ==
  {t \in UNION {UNION {{[d |-> D \cup {<<>>}, f |-> fn] : fn \in [F -> TestData]} :
                         F \in SUBSET (TestPaths \ D)} :
                D \in SUBSET TestPaths} : WellFormed(t)}

\* the destinations tried: the root of the disk, a path below it, a path two levels down
TestRoots == {<<>>, <<"a">>, <<"a", "c">>}

InitFS ==
  /\ pc = "test"
  /\ disk \in TestTrees
  /\ \E from \in TestTrees, to_root \in TestRoots :
       h = [NoCall EXCEPT !.from = from, !.to_root = to_root, !.pre = disk]
  /\ MainUnused
  /\ GitUnused

\* overlay(h.from, h.to_root) on the disk
TestOverlay ==
  /\ pc = "test"
  /\ \E order \in rglob(h.from, <<>>) :
       LET r == overlay(h.from, disk, h.to_root, order)
       IN /\ disk' = r.fs
          /\ h' = [h EXCEPT !.op = "overlay", !.ok = r.ok, !.exc = r.exc,
                            !.notices = r.notices]
  /\ pc' = "tested"
  /\ UNCHANGED <<mainVars, gitVars>>

\* shutil.copytree(h.from, h.to_root) on the disk
TestCopytree ==
  /\ pc = "test"
  /\ LET r == copytree(h.from, disk, h.to_root)
     IN /\ disk' = r.fs
        /\ h' = [h EXCEPT !.op = "copytree", !.ok = r.ok, !.exc = r.exc]
  /\ pc' = "tested"
  /\ UNCHANGED <<mainVars, gitVars>>

NextFS == TestOverlay \/ TestCopytree

SpecFS == InitFS /\ [][NextFS]_vars

(***************************************************************************)
(* A mapping sequence applied to one merged tree, as the composer applies  *)
(* its layers: shutil.copytree of a first tree to the namespace root, then *)
(* overlay of two more trees onto a directory below it. The sequence stops *)
(* at the first call that raises.                                          *)
(***************************************************************************)
\* the namespace root, and the directory below it that the later layers go to
NsRoot == <<"ns">>

SubRoot == <<"ns", "a">>

\* the file both later layers may hold, relative to SubRoot
XFile == <<"c">>

LayerSequence == <<"copytree", "overlay", "overlay">>

LayerCall(op, from, to_root, pre, r, nts) ==
  [op |-> op, from |-> from, to_root |-> to_root, pre |-> pre, post |-> r.fs,
   ok |-> r.ok, exc |-> r.exc, notices |-> nts]

InitLayers ==
  /\ pc = "layers"
  /\ disk = EmptyDir
  /\ h = NoCall
  /\ MainUnused
  /\ HAS_GITPYTHON = TRUE
  /\ remote = [r \in Repos |-> 0]
  /\ repos = [r \in Repos |-> NoRepo(r)]
  /\ gitlog = <<>>
  /\ calls = <<>>

\* shutil.copytree(A, ns)
LayerReplaceTree ==
  /\ pc = "layers"
  /\ Len(calls) < Len(LayerSequence)
  /\ LayerSequence[Len(calls) + 1] = "copytree"
  /\ \E from \in TestTrees :
       LET r == copytree(from, disk, NsRoot)
       IN /\ disk' = r.fs
          /\ calls' = Append(calls, LayerCall("copytree", from, NsRoot, disk, r, <<>>))
          /\ pc' = IF r.ok THEN "layers" ELSE "stopped"
  /\ UNCHANGED <<h, HAS_GITPYTHON, remote, repos, gitlog, mainVars>>

\* overlay(B, ns/a)
LayerOverlay ==
  /\ pc = "layers"
  /\ Len(calls) < Len(LayerSequence)
  /\ LayerSequence[Len(calls) + 1] = "overlay"
  /\ \E from \in TestTrees :
       \E order \in rglob(from, <<>>) :
         LET r == overlay(from, disk, SubRoot, order)
         IN /\ disk' = r.fs
            /\ calls' = Append(calls, LayerCall("overlay", from, SubRoot, disk, r, r.notices))
            /\ pc' = IF r.ok THEN "layers" ELSE "stopped"
  /\ UNCHANGED <<h, HAS_GITPYTHON, remote, repos, gitlog, mainVars>>

NextLayers == LayerReplaceTree \/ LayerOverlay

SpecLayers == InitLayers /\ [][NextLayers]_vars

(***************************************************************************)
(* The trees a run may meet. A file's content names where it comes from.   *)
(***************************************************************************)
Tree(dirs, files) == [d |-> dirs \cup {<<>>}, f |-> files]

\* the hand-written core API of the pinned checkout: absent, plain, or holding a
\* proto directory of its own
CoreTrees ==
  {NoTree,
   Tree({}, <<"Tensor.java">> :> "core"),
   Tree({<<"proto">>}, (<<"Tensor.java">> :> "core") @@ (<<"proto", "Old.java">> :> "core"))}

\* the generated sources: absent, a package directory, or a file the core API has too
GenTrees ==
  {NoTree,
   Tree({<<"op">>}, <<"op", "Ops.java">> :> "gen"),
   Tree({}, <<"Tensor.java">> :> "gen")}

LeafTrees(layer) == {NoTree, Tree({}, <<"A.java">> :> layer)}

LayerTrees(layer) ==
  IF layer = "core" THEN CoreTrees
  ELSE IF layer = "gen" THEN GenTrees
  ELSE LeafTrees(layer)

\* the working trees a checkout of the pinned revision may give
Checkouts(name) ==
  IF name = "tfjava"
  THEN [core : LayerTrees("core"), gen : LayerTrees("gen"), proto : LayerTrees("proto"),
        exceptions : LayerTrees("exceptions"), c_api : LayerTrees("c_api"),
        framework : LayerTrees("framework")]
  ELSE [ndarray : LayerTrees("ndarray")]

\* tensorflow/java/src/main/java of this repository: absent, the package, or the
\* package with an ops directory of its own
PrimaryTrees ==
  {NoTree,
   Tree({<<"org">>, <<"org", "tensorflow">>},
        <<"org", "tensorflow", "Tensor.java">> :> "primary"),
   Tree({<<"org">>, <<"org", "tensorflow">>, <<"org", "tensorflow", "ops">>},
        <<"org", "tensorflow", "Tensor.java">> :> "primary")}

\* bazel-bin/tensorflow/java/ops/src/main/java/org/tensorflow/op after the build
OpTrees == {NoTree, Tree({}, <<"Ops.java">> :> "ops")}

\* the outcomes of starting an external tool
ToolOutcomes == {"absent", "fails", "ok"}

(***************************************************************************)
(* main and the two builds, step by step.                                  *)
(***************************************************************************)
\* the names tempfile.mkdtemp returns, in order: a name is never given twice
TmpNames == <<"tmp1", "tmp2">>

\* tempfile.mkdtemp(), the k-th call of the run
mkdtemp(fs, k) == [path |-> <<TmpNames[k]>>, fs |-> [fs EXCEPT !.d = @ \cup {<<TmpNames[k]>>}]]

NS == <<"java", "org", "tensorflow">>

\* the steps of build_comprehensive_java_docs
ComprehensiveSteps ==
  <<"mkdir", "checkout_tensorflow_java", "checkout_ndarray", "core", "gen", "proto",
    "exceptions", "c_api", "framework", "ndarray">>

\* the steps of build_traditional_tensorflow_java_docs
TraditionalSteps == <<"traditional", "yes", "configure", "bazel", "copy_ops">>

InSeq(x, sq) == \E i \in 1..Len(sq) : sq[i] = x

\* the set of the elements of a sequence
Range(sq) == {sq[i] : i \in 1..Len(sq)}

\* where an exception raised in a step goes, whatever it catches all: the try of main
\* also around the fallback
handler_retrying(step) == "except"

\* where an exception raised in a step goes: main's try block covers
\* build_comprehensive_java_docs only
handler(step) == IF InSeq(step, ComprehensiveSteps) THEN "except" ELSE "raised"

Event(step, out) == [step |-> step, out |-> out]

\* the step went through and the run goes on at next
Went(step, out, next) ==
  /\ trace' = Append(trace, Event(step, out))
  /\ pc' = next
  /\ exc' = exc

\* the step was the last of its build, which returns to main
Returned(step, out, build) ==
  /\ trace' = trace \o <<Event(step, out), Event("return", build)>>
  /\ pc' = "gen_java_docs"
  /\ exc' = exc

\* the step raised
Raised(step, type) ==
  /\ trace' = Append(trace, Event(step, "raise"))
  /\ pc' = handler(step)
  /\ exc' = [type |-> type, at |-> step]

\* a step that is the last of build_comprehensive_java_docs returns, any other goes on
After(step, out, next) ==
  IF next = "gen_java_docs" THEN Returned(step, out, "comprehensive")
  ELSE Went(step, out, next)

\* the local path --tensorflow_java_repo names: absent, or a directory with any of the
\* subtrees
GivenRepos ==
  {NoRepo("tfjava")} \cup
  {[exists |-> TRUE, ref |-> 0, head |-> 0, wt |-> w] : w \in Checkouts("tfjava")}

InitMain ==
  /\ pc = "main"
  /\ disk = EmptyDir
  /\ h = NoCall
  /\ calls = <<>>
  /\ FLAGS \in [gen_ops : BOOLEAN, tensorflow_java_repo : BOOLEAN]
  /\ HAS_GITPYTHON \in BOOLEAN
  /\ TF_JAVA_SOURCE_PATH \in PrimaryTrees
  /\ remote \in [Repos -> 0..1]
  \* --tensorflow_java_repo names any local path, which no remote is asked about
  /\ FLAGS.tensorflow_java_repo => remote["tfjava"] = 0
  /\ \E tf \in (IF FLAGS.tensorflow_java_repo THEN GivenRepos
                ELSE FoundRepos("tfjava", remote["tfjava"])),
        nd \in FoundRepos("ndarray", remote["ndarray"]) :
       repos = [r \in Repos |-> IF r = "tfjava" THEN tf ELSE nd]
  /\ merged_source = <<>>
  /\ exc = NoExc
  /\ trace = <<>>
  /\ gitlog = <<>>
  /\ notices = <<>>

\* main, to the call of build_comprehensive_java_docs
main_mkdtemp ==
  /\ pc = "main"
  /\ LET t == mkdtemp(disk, 1)
     IN disk' = t.fs /\ merged_source' = t.path
  /\ Went("mkdtemp", "ok", "mkdir")
  /\ UNCHANGED <<h, FLAGS, TF_JAVA_SOURCE_PATH, notices, gitVars>>

\* (merged_source / 'java/org').mkdir(parents=True, exist_ok=True)
mkdir_base ==
  /\ pc = "mkdir"
  /\ LET r == mkdir(disk, merged_source \o <<"java", "org">>, TRUE, TRUE)
     IN /\ disk' = r.fs
        /\ IF r.ok THEN Went("mkdir", "ok", "checkout_tensorflow_java")
           ELSE Raised("mkdir", r.exc)
  /\ UNCHANGED <<h, FLAGS, TF_JAVA_SOURCE_PATH, merged_source, notices, gitVars>>

\* a repository synchronized by clone_or_update_repo within the composer
Synchronize(step, name, next) ==
  \E net_ok \in BOOLEAN, content \in Checkouts(name) :
    LET res == clone_or_update_repo(repos[name], name, Version(name), remote[name], content,
                                    net_ok, HAS_GITPYTHON)
    IN /\ repos' = [repos EXCEPT ![name] = res.repo]
       /\ gitlog' = gitlog \o res.ops
       /\ IF res.ok THEN Went(step, "ok", next) ELSE Raised(step, res.exc)

\* checkout_tensorflow_java with the repository synchronized whatever the flag says
checkout_tensorflow_java_always ==
  /\ pc = "checkout_tensorflow_java"
  /\ Synchronize("checkout_tensorflow_java", "tfjava", "checkout_ndarray")
  /\ UNCHANGED <<disk, h, FLAGS, TF_JAVA_SOURCE_PATH, merged_source, notices,
                 HAS_GITPYTHON, remote, calls>>

\* checkout_tensorflow_java()
checkout_tensorflow_java ==
  /\ pc = "checkout_tensorflow_java"
  /\ IF FLAGS.tensorflow_java_repo
     THEN /\ Went("checkout_tensorflow_java", "skip", "checkout_ndarray")
          /\ UNCHANGED <<repos, gitlog>>
     ELSE Synchronize("checkout_tensorflow_java", "tfjava", "checkout_ndarray")
  /\ UNCHANGED <<disk, h, FLAGS, TF_JAVA_SOURCE_PATH, merged_source, notices,
                 HAS_GITPYTHON, remote, calls>>

\* checkout_ndarray with a failed synchronization passed over: the composer goes on
checkout_ndarray_best_effort ==
  /\ pc = "checkout_ndarray"
  /\ \E net_ok \in BOOLEAN, content \in Checkouts("ndarray") :
       LET res == clone_or_update_repo(repos["ndarray"], "ndarray", Version("ndarray"),
                                       remote["ndarray"], content, net_ok, HAS_GITPYTHON)
       IN /\ repos' = [repos EXCEPT !["ndarray"] = res.repo]
          /\ gitlog' = gitlog \o res.ops
          /\ Went("checkout_ndarray", IF res.ok THEN "ok" ELSE "raise", "core")
  /\ UNCHANGED <<disk, h, FLAGS, TF_JAVA_SOURCE_PATH, merged_source, notices,
                 HAS_GITPYTHON, remote, calls>>

\* checkout_ndarray()
checkout_ndarray ==
  /\ pc = "checkout_ndarray"
  /\ Synchronize("checkout_ndarray", "ndarray", "core")
  /\ UNCHANGED <<disk, h, FLAGS, TF_JAVA_SOURCE_PATH, merged_source, notices,
                 HAS_GITPYTHON, remote, calls>>

\* if src.exists(): shutil.copytree(src, merged_source / dst)
PlaceByCopytree(step, src, dst, next) ==
  /\ pc = step
  /\ IF ~Exists(src, <<>>)
     THEN disk' = disk /\ After(step, "skip", next)
     ELSE LET r == copytree(src, disk, merged_source \o dst)
          IN /\ disk' = r.fs
             /\ IF r.ok THEN After(step, "ok", next) ELSE Raised(step, r.exc)
  /\ UNCHANGED <<h, FLAGS, TF_JAVA_SOURCE_PATH, merged_source, notices, gitVars>>

\* if src.exists(): overlay(src, merged_source / dst)
PlaceByOverlay(step, src, dst, next) ==
  /\ pc = step
  /\ IF ~Exists(src, <<>>)
     THEN disk' = disk /\ notices' = notices /\ After(step, "skip", next)
     ELSE \E order \in rglob(src, <<>>) :
            LET r == overlay(src, disk, merged_source \o dst, order)
            IN /\ disk' = r.fs
               /\ notices' = notices \o r.notices
               /\ IF r.ok THEN After(step, "ok", next) ELSE Raised(step, r.exc)
  /\ UNCHANGED <<h, FLAGS, TF_JAVA_SOURCE_PATH, merged_source, gitVars>>

\* the destination of each layer, below the merged tree
Dest(layer) ==
  CASE layer = "core" -> NS
    [] layer = "gen" -> NS
    [] layer = "proto" -> NS \o <<"proto">>
    [] layer = "exceptions" -> NS \o <<"exceptions">>
    [] layer = "c_api" -> NS \o <<"internal", "c_api">>
    [] layer = "framework" -> NS \o <<"framework">>
    [] layer = "ndarray" -> NS \o <<"ndarray">>

place_core == PlaceByCopytree("core", repos["tfjava"].wt["core"], Dest("core"), "gen")

\* the generated sources placed by a copytree that merges into an existing destination
place_gen_by_merging_copytree ==
  /\ pc = "gen"
  /\ LET src == repos["tfjava"].wt["gen"]
     IN IF ~Exists(src, <<>>)
        THEN disk' = disk /\ Went("gen", "skip", "proto")
        ELSE LET r == copytree_dirs_exist_ok(src, disk, merged_source \o Dest("gen"))
             IN /\ disk' = r.fs
                /\ IF r.ok THEN Went("gen", "ok", "proto") ELSE Raised("gen", r.exc)
  /\ UNCHANGED <<h, FLAGS, TF_JAVA_SOURCE_PATH, merged_source, notices, gitVars>>

place_gen == PlaceByOverlay("gen", repos["tfjava"].wt["gen"], Dest("gen"), "proto")

place_proto ==
  PlaceByCopytree("proto", repos["tfjava"].wt["proto"], Dest("proto"), "exceptions")

place_exceptions ==
  PlaceByCopytree("exceptions", repos["tfjava"].wt["exceptions"], Dest("exceptions"), "c_api")

place_c_api ==
  PlaceByCopytree("c_api", repos["tfjava"].wt["c_api"], Dest("c_api"), "framework")

place_framework ==
  PlaceByCopytree("framework", repos["tfjava"].wt["framework"], Dest("framework"), "ndarray")

place_ndarray ==
  PlaceByCopytree("ndarray", repos["ndarray"].wt["ndarray"], Dest("ndarray"), "gen_java_docs")

\* the fallback's tree with the failed tree kept and built upon
fallback_tree_reused(fs, merged) == [path |-> merged, fs |-> fs]

\* shutil.rmtree(merged_source); merged_source = pathlib.Path(tempfile.mkdtemp())
fallback_tree(fs, merged) == mkdtemp(rmtree(fs, merged), 2)

\* main's except clause, to the call of build_traditional_tensorflow_java_docs
main_except ==
  /\ pc = "except"
  /\ LET t == fallback_tree(disk, merged_source)
     IN disk' = t.fs /\ merged_source' = t.path
  /\ Went("except", "ok", "traditional")
  /\ UNCHANGED <<h, FLAGS, TF_JAVA_SOURCE_PATH, notices, gitVars>>

\* build_traditional_tensorflow_java_docs, to the generation of the ops
traditional_copy ==
  /\ pc = "traditional"
  /\ IF ~Exists(TF_JAVA_SOURCE_PATH, <<>>)
     THEN disk' = disk /\ Returned("traditional", "skip", "traditional")
     ELSE LET r == copytree(TF_JAVA_SOURCE_PATH, disk, merged_source \o <<"java">>)
          IN /\ disk' = r.fs
             /\ IF ~r.ok THEN Raised("traditional", r.exc)
                ELSE IF FLAGS.gen_ops THEN Went("traditional", "ok", "yes")
                ELSE Returned("traditional", "ok", "traditional")
  /\ UNCHANGED <<h, FLAGS, TF_JAVA_SOURCE_PATH, merged_source, notices, gitVars>>

\* subprocess.Popen(['yes', '']): an absent program raises FileNotFoundError, which the
\* except clause for CalledProcessError does not catch
gen_ops_yes ==
  /\ pc = "yes"
  /\ \E tool \in {"absent", "ok"} :
       IF tool = "absent" THEN Raised("yes", "FileNotFoundError")
       ELSE Went("yes", "ok", "configure")
  /\ UNCHANGED <<disk, h, FLAGS, TF_JAVA_SOURCE_PATH, merged_source, notices, gitVars>>

\* subprocess.Popen([REPO_ROOT / 'configure']) and communicate(): the exit status is
\* not looked at
gen_ops_configure ==
  /\ pc = "configure"
  /\ \E tool \in ToolOutcomes :
       IF tool = "absent" THEN Raised("configure", "FileNotFoundError")
       ELSE Went("configure", tool, "bazel")
  /\ UNCHANGED <<disk, h, FLAGS, TF_JAVA_SOURCE_PATH, merged_source, notices, gitVars>>

\* subprocess.check_call(['bazel', 'build', ...]): a failed build raises
\* CalledProcessError, caught and printed; an absent bazel raises FileNotFoundError
gen_ops_bazel ==
  /\ pc = "bazel"
  /\ \E tool \in ToolOutcomes :
       IF tool = "absent" THEN Raised("bazel", "FileNotFoundError")
       ELSE IF tool = "fails"
         THEN /\ trace' = trace \o <<Event("bazel", "caught"), Event("return", "traditional")>>
              /\ pc' = "gen_java_docs"
              /\ exc' = [type |-> "CalledProcessError", at |-> "bazel"]
       ELSE Went("bazel", "ok", "copy_ops")
  /\ UNCHANGED <<disk, h, FLAGS, TF_JAVA_SOURCE_PATH, merged_source, notices, gitVars>>

\* if op_source_path.exists(): shutil.copytree(op_source_path, .../org/tensorflow/ops)
gen_ops_copy ==
  /\ pc = "copy_ops"
  /\ \E ops \in OpTrees :
       IF ~Exists(ops, <<>>)
       THEN disk' = disk /\ Returned("copy_ops", "skip", "traditional")
       ELSE LET r == copytree(ops, disk, merged_source \o NS \o <<"ops">>)
            IN /\ disk' = r.fs
               /\ IF r.ok THEN Returned("copy_ops", "ok", "traditional")
                  ELSE Raised("copy_ops", r.exc)
  /\ UNCHANGED <<h, FLAGS, TF_JAVA_SOURCE_PATH, merged_source, notices, gitVars>>

\* gen_java.gen_java_docs(package, source_path=merged_source / 'java', ...)
gen_java_docs ==
  /\ pc = "gen_java_docs"
  /\ Went("gen_java_docs", "ok", "done")
  /\ UNCHANGED <<disk, h, FLAGS, TF_JAVA_SOURCE_PATH, merged_source, notices, gitVars>>

Next ==
  \/ main_mkdtemp
  \/ mkdir_base
  \/ checkout_tensorflow_java
  \/ checkout_ndarray
  \/ place_core
  \/ place_gen
  \/ place_proto
  \/ place_exceptions
  \/ place_c_api
  \/ place_framework
  \/ place_ndarray
  \/ main_except
  \/ traditional_copy
  \/ gen_ops_yes
  \/ gen_ops_configure
  \/ gen_ops_bazel
  \/ gen_ops_copy
  \/ gen_java_docs

Spec == InitMain /\ [][Next]_vars

(***************************************************************************)
(* tensorflow/tools/docs/update_java_version_docs.py. A text is a sequence *)
(* of characters. A regular expression is a sequence of elements: a        *)
(* literal, \b, \s+ or \s*, an optional group, or alternatives; matching   *)
(* is Python's: leftmost, greedy, with backtracking.                       *)
(***************************************************************************)
UpperCase == <<"A", "B", "C", "D", "E", "F", "G", "H", "I", "J", "K", "L", "M", "N", "O", "P", "Q", "R", "S", "T", "U", "V", "W", "X", "Y", "Z">>

LowerCase == <<"a", "b", "c", "d", "e", "f", "g", "h", "i", "j", "k", "l", "m", "n", "o", "p", "q", "r", "s", "t", "u", "v", "w", "x", "y", "z">>

Digits == {"0", "1", "2", "3", "4", "5", "6", "7", "8", "9"}

\* the characters \w matches
WordChars == Range(UpperCase) \cup Range(LowerCase) \cup Digits \cup {"_"}

\* the characters \s matches
SpaceChars == {" ", "\t", "\n", "\r"}

\* str.lower of the upper-case letters
LowerOf == [c \in Range(UpperCase) |-> LowerCase[CHOOSE i \in 1..Len(UpperCase) : UpperCase[i] = c]]

\* str.lower of one character, as re.IGNORECASE compares
Lower(c) == IF c \in DOMAIN LowerOf THEN LowerOf[c] ELSE c

Lit(s) == [k |-> "lit", s |-> s]

WordBoundary == [k |-> "b"]

Spaces(min) == [k |-> "ws", min |-> min]

Optional(inner) == [k |-> "opt", inner |-> inner]

Alternatives(alts) == [k |-> "alt", alts |-> alts]

\* whether position i of the text holds a word character
WordAt(text, i) == i \in 1..Len(text) /\ text[i] \in WordChars

\* whether the literal s is at position i of the text, letters compared as the flag says
LitAt(text, i, s, ignorecase) ==
  /\ i + Len(s) - 1 <= Len(text)
  /\ IF ignorecase THEN \A k \in 1..Len(s) : Lower(text[i + k - 1]) = Lower(s[k])
     ELSE \A k \in 1..Len(s) : text[i + k - 1] = s[k]

RECURSIVE SpacesEnd(_, _)
\* the position after the run of white space that starts at i
SpacesEnd(text, i) ==
  IF i <= Len(text) /\ text[i] \in SpaceChars THEN SpacesEnd(text, i + 1) ELSE i

RECURSIVE MatchFrom(_, _, _, _, _), FirstAlternative(_, _, _, _, _, _)
\* the elements of a regular expression from the n-th on matched at position i of the
\* text: the position after the match, 0 when there is none
MatchFrom(text, i, regex, n, ignorecase) ==
  IF n > Len(regex) THEN i
  ELSE LET e == regex[n]
       IN CASE e.k = "lit" ->
                 IF LitAt(text, i, e.s, ignorecase)
                 THEN MatchFrom(text, i + Len(e.s), regex, n + 1, ignorecase) ELSE 0
            [] e.k = "b" ->
                 IF WordAt(text, i - 1) # WordAt(text, i)
                 THEN MatchFrom(text, i, regex, n + 1, ignorecase) ELSE 0
            [] e.k = "ws" ->
                 LET ends == {j \in (i + e.min)..SpacesEnd(text, i) :
                                MatchFrom(text, j, regex, n + 1, ignorecase) # 0}
                 IN IF ends = {} THEN 0
                    ELSE MatchFrom(text, CHOOSE j \in ends : \A x \in ends : x <= j,
                                   regex, n + 1, ignorecase)
            [] e.k = "opt" ->
                 LET rest == SubSeq(regex, n + 1, Len(regex))
                     taken == MatchFrom(text, i, e.inner \o rest, 1, ignorecase)
                 IN IF taken # 0 THEN taken
                    ELSE MatchFrom(text, i, regex, n + 1, ignorecase)
            [] e.k = "alt" ->
                 FirstAlternative(text, i, e.alts, 1, SubSeq(regex, n + 1, Len(regex)),
                                  ignorecase)

FirstAlternative(text, i, alts, n, rest, ignorecase) ==
  IF n > Len(alts) THEN 0
  ELSE LET m == MatchFrom(text, i, alts[n] \o rest, 1, ignorecase)
       IN IF m # 0 THEN m ELSE FirstAlternative(text, i, alts, n + 1, rest, ignorecase)

\* re.match at position i: the position after the match, 0 when there is none
MatchAt(text, i, regex, ignorecase) == MatchFrom(text, i, regex, 1, ignorecase)

\* a pattern with its replacement: group1, old and group2 are matched one after the
\* other, and the text matched by old is replaced by new, the groups being kept (for a
\* pattern without groups, group1 and group2 are empty and old is the whole pattern)
Pattern(group1, old, group2, new, ignorecase) ==
  [group1 |-> group1, old |-> old, group2 |-> group2, new |-> new, ignorecase |-> ignorecase,
   regex |-> group1 \o old \o group2]

RECURSIVE re_search(_, _, _)
\* the leftmost position from i on where the pattern matches, 0 when there is none
re_search(pat, text, i) ==
  IF i > Len(text) THEN 0
  ELSE IF MatchAt(text, i, pat.regex, pat.ignorecase) # 0 THEN i
  ELSE re_search(pat, text, i + 1)

RECURSIVE re_sub_from(_, _, _)
\* the text from position i on with every match replaced, leftmost first, no two
\* matches overlapping
re_sub_from(pat, text, i) ==
  LET at == re_search(pat, text, i)
      end == MatchAt(text, at, pat.regex, pat.ignorecase)
      \* where group 1 ends: its white space is followed by a character that is none
      g1 == MatchAt(text, at, pat.group1, pat.ignorecase)
      o1 == MatchAt(text, g1, pat.old, pat.ignorecase)
  IN IF at = 0 THEN SubSeq(text, i, Len(text))
     ELSE SubSeq(text, i, g1 - 1) \o pat.new \o SubSeq(text, o1, end - 1)
          \o re_sub_from(pat, text, end)

\* re.sub(pattern, replacement, text)
re_sub(pat, text) == re_sub_from(pat, text, 1)

OLD_VERSION == <<"0", ".", "3", ".", "3">>

NEW_VERSION == <<"1", ".", "1", ".", "0">>

OLD_SNAPSHOT == <<"0", ".", "4", ".", "0", "-", "S", "N", "A", "P", "S", "H", "O", "T">>

NEW_SNAPSHOT == <<"1", ".", "2", ".", "0", "-", "S", "N", "A", "P", "S", "H", "O", "T">>

VersionOpen == <<"<", "v", "e", "r", "s", "i", "o", "n", ">">>

VersionClose == <<"<", "/", "v", "e", "r", "s", "i", "o", "n", ">">>

GradleSingle == <<"v", "e", "r", "s", "i", "o", "n", ":", " ", "'">>

GradleDouble == <<"v", "e", "r", "s", "i", "o", "n", ":", " ", "\"">>

VERSION_PATTERNS ==
  <<Pattern(<<>>, <<Lit(VersionOpen \o OLD_VERSION \o VersionClose)>>, <<>>,
            VersionOpen \o NEW_VERSION \o VersionClose, FALSE),
    Pattern(<<>>, <<Lit(GradleSingle \o OLD_VERSION \o <<"'">>)>>, <<>>,
            GradleSingle \o NEW_VERSION \o <<"'">>, FALSE),
    Pattern(<<>>, <<Lit(GradleDouble \o OLD_VERSION \o <<"\"">>)>>, <<>>,
            GradleDouble \o NEW_VERSION \o <<"\"">>, FALSE),
    Pattern(<<>>, <<WordBoundary, Lit(OLD_VERSION), WordBoundary>>, <<>>, NEW_VERSION, FALSE),
    Pattern(<<>>, <<WordBoundary, Lit(OLD_SNAPSHOT), WordBoundary>>, <<>>, NEW_SNAPSHOT, FALSE)>>

DependencyOpen == <<"<", "d", "e", "p", "e", "n", "d", "e", "n", "c", "y", ">">>

GroupId ==
  <<"<", "g", "r", "o", "u", "p", "I", "d", ">", "o", "r", "g", ".", "t", "e", "n", "s",
    "o", "r", "f", "l", "o", "w", "<", "/", "g", "r", "o", "u", "p", "I", "d", ">">>

ArtifactId ==
  <<"<", "a", "r", "t", "i", "f", "a", "c", "t", "I", "d", ">", "t", "e", "n", "s", "o",
    "r", "f", "l", "o", "w", "-", "c", "o", "r", "e", "-", "p", "l", "a", "t", "f", "o",
    "r", "m", "<", "/", "a", "r", "t", "i", "f", "a", "c", "t", "I", "d", ">">>

CompileGroup ==
  <<"c", "o", "m", "p", "i", "l", "e", " ", "g", "r", "o", "u", "p", ":", " ", "'", "o",
    "r", "g", ".", "t", "e", "n", "s", "o", "r", "f", "l", "o", "w", "'", ",", " ", "n",
    "a", "m", "e", ":", " ", "'", "t", "e", "n", "s", "o", "r", "f", "l", "o", "w", "-",
    "c", "o", "r", "e", "-", "p", "l", "a", "t", "f", "o", "r", "m", "'", ",", " ", "v",
    "e", "r", "s", "i", "o", "n", ":", " ", "'">>

\* both patterns are applied with re.MULTILINE | re.DOTALL, which change ^, $ and . only
DEPENDENCY_PATTERNS ==
  <<Pattern(<<Lit(DependencyOpen), Spaces(0), Lit(GroupId), Spaces(0), Lit(ArtifactId),
              Spaces(0), Lit(VersionOpen)>>,
            <<Lit(OLD_VERSION)>>, <<Lit(VersionClose)>>, NEW_VERSION, FALSE),
    Pattern(<<Lit(CompileGroup)>>, <<Lit(OLD_VERSION)>>, <<Lit(<<"'">>)>>, NEW_VERSION, FALSE)>>

\* (Java\s+)8(\s+(?:and\s+)?above|(?:\s+or\s+)?higher|\+), re.IGNORECASE -> \g<1>11\2
java_req_pattern ==
  Pattern(<<Lit(<<"J", "a", "v", "a">>), Spaces(1)>>,
          <<Lit(<<"8">>)>>,
          <<Alternatives(<<
              <<Spaces(1), Optional(<<Lit(<<"a", "n", "d">>), Spaces(1)>>),
                Lit(<<"a", "b", "o", "v", "e">>)>>,
              <<Optional(<<Spaces(1), Lit(<<"o", "r">>), Spaces(1)>>),
                Lit(<<"h", "i", "g", "h", "e", "r">>)>>,
              <<Lit(<<"+">>)>> >>)>>,
          <<"1", "1">>, TRUE)

RECURSIVE apply_patterns(_, _, _, _)
\* the loop over a pattern list: each pattern substituted in turn, a change noted
apply_patterns(pats, kind, content, changes_made) ==
  IF pats = <<>> THEN [content |-> content, changes |-> changes_made]
  ELSE LET new_content == re_sub(Head(pats), content)
       IN apply_patterns(Tail(pats), kind, new_content,
                         IF new_content # content THEN Append(changes_made, kind)
                         ELSE changes_made)

\* update_file_content(content, dry_run): dry_run is not used
update_file_content(content, dry_run) ==
  LET v == apply_patterns(VERSION_PATTERNS, "version", content, <<>>)
  IN apply_patterns(DEPENDENCY_PATTERNS, "dependency", v.content, v.changes)

update_java_requirements_section(content) ==
  LET updated == re_sub(java_req_pattern, content)
  IN IF updated # content THEN [content |-> updated, changes |-> <<"java">>]
     ELSE [content |-> content, changes |-> <<>>]

\* the two updates of process_file, one after the other
updated_content(original_content) ==
  update_java_requirements_section(update_file_content(original_content, FALSE).content).content

\* process_file with the file written in a dry run too
process_file_writing(file, dry_run) ==
  IF ~file.readable THEN [ret |-> FALSE, file |-> file, out |-> "error"]
  ELSE LET new == updated_content(file.content)
       IN IF new = file.content THEN [ret |-> FALSE, file |-> file, out |-> "no changes"]
          ELSE IF ~file.writable THEN [ret |-> FALSE, file |-> file, out |-> "error"]
          ELSE [ret |-> TRUE, file |-> [file EXCEPT !.content = new], out |-> "updated"]

\* process_file(file_path, dry_run): what it returns, the file it leaves and what it
\* prints. An exception of open (for reading, or for writing) is caught: False
process_file(file, dry_run) ==
  IF ~file.readable THEN [ret |-> FALSE, file |-> file, out |-> "error"]
  ELSE LET new == update_java_requirements_section(
                    update_file_content(file.content, dry_run).content).content
       IN IF new = file.content THEN [ret |-> FALSE, file |-> file, out |-> "no changes"]
          ELSE IF dry_run THEN [ret |-> TRUE, file |-> file, out |-> "would update"]
          ELSE IF ~file.writable THEN [ret |-> FALSE, file |-> file, out |-> "error"]
          ELSE [ret |-> TRUE, file |-> [file EXCEPT !.content = new], out |-> "updated"]

(***************************************************************************)
(* The version updater's main: process_file on each path of args.files.    *)
(***************************************************************************)
\* the pieces the documentation files are made of
Pieces ==
  {OLD_VERSION, <<".", "3", ".", "3">>, OLD_SNAPSHOT, VersionOpen, VersionClose,
   <<"J", "A", "V", "A", " ", "8">>, <<"+">>,
   <<" ", "o", "r", " ", "h", "i", "g", "h", "e", "r">>, <<"1">>}

RECURSIVE TextsOf(_)
\* the texts of n pieces
TextsOf(n) == IF n = 0 THEN {<<>>} ELSE {p \o s : p \in Pieces, s \in TextsOf(n - 1)}

Texts == UNION {TextsOf(n) : n \in 0..MaxPieces}

DocPath == <<"doc.md">>

MissingPath == <<"missing.md">>

\* args.files
ArgFiles == {<<DocPath, DocPath>>, <<MissingPath, DocPath>>}

\* what open() allows on the file
Permissions == {[readable |-> TRUE, writable |-> TRUE], [readable |-> TRUE, writable |-> FALSE],
                [readable |-> FALSE, writable |-> FALSE]}

InitUpdater ==
  /\ pc = "files"
  /\ \E text \in Texts : disk = [d |-> {<<>>}, f |-> (DocPath :> text)]
  /\ \E files \in ArgFiles, dry_run \in BOOLEAN, perm \in Permissions :
       h = [files |-> files, dry_run |-> dry_run, perm |-> perm, files_updated |-> 0,
            summary |-> FALSE]
  /\ MainUnused
  /\ HAS_GITPYTHON = TRUE
  /\ remote = [r \in Repos |-> 0]
  /\ repos = [r \in Repos |-> NoRepo(r)]
  /\ gitlog = <<>>
  /\ calls = <<>>

\* one round of the loop over args.files: a path that does not exist is passed over
updater_file ==
  /\ pc = "files"
  /\ LET path == h.files[Len(calls) + 1]
     IN IF ~Exists(disk, path)
        THEN /\ calls' = Append(calls, [path |-> path, called |-> FALSE, ret |-> FALSE,
                                        before |-> <<>>, after |-> <<>>, out |-> "not found"])
             /\ UNCHANGED <<disk, h>>
        ELSE LET file == [readable |-> h.perm.readable, writable |-> h.perm.writable,
                          content |-> disk.f[path]]
                 r == process_file(file, h.dry_run)
             IN /\ disk' = [disk EXCEPT !.f[path] = r.file.content]
                /\ h' = [h EXCEPT !.files_updated = IF r.ret THEN @ + 1 ELSE @]
                /\ calls' = Append(calls, [path |-> path, called |-> TRUE, ret |-> r.ret,
                                           before |-> file.content,
                                           after |-> r.file.content, out |-> r.out])
  /\ pc' = IF Len(calls') = Len(h.files) THEN "summary" ELSE "files"
  /\ UNCHANGED <<HAS_GITPYTHON, remote, repos, gitlog, mainVars>>

\* print(f"Summary: {files_updated} of {len(args.files)} files updated")
updater_summary ==
  /\ pc = "summary"
  /\ h' = [h EXCEPT !.summary = TRUE]
  /\ pc' = "exit"
  /\ UNCHANGED <<disk, calls, HAS_GITPYTHON, remote, repos, gitlog, mainVars>>

NextUpdater == updater_file \/ updater_summary

SpecUpdater == InitUpdater /\ [][NextUpdater]_vars

(***************************************************************************)
(* What the claims about main read off a run.                              *)
(***************************************************************************)
Count(step) == Cardinality({i \in 1..Len(trace) : trace[i].step = step})

Happened(step, out) == \E i \in 1..Len(trace) : trace[i] = Event(step, out)

\* main's except clause has run
FellBack == Count("except") > 0

\* main is about to call the doc generator, or has called it
AtDocGen == pc \in {"gen_java_docs", "done"}

\* the path q of the disk, relative to the merged tree
InMerged(q) == SubSeq(q, Len(merged_source) + 1, Len(q))

\* the steps that place a layer after the core API
LaterLayers == {"gen", "proto", "exceptions", "c_api", "framework", "ndarray"}

AugmentationSteps == {"yes", "configure", "bazel", "copy_ops"}

(***************************************************************************)
(* C1: once the comprehensive build has raised and main has fallen back,   *)
(* the first temporary tree is gone from the disk, and the merged tree     *)
(* handed to the doc generator is another tree, in which every entry is    *)
(* the root, an entry of the primary source directory copied below java    *)
(* with its content, or lies in the generated ops directory.               *)
(***************************************************************************)
C1_DegradedTreeIsPrimaryOnly ==
  FellBack =>
    /\ ~Exists(disk, <<TmpNames[1]>>)
    /\ AtDocGen =>
         /\ merged_source # <<TmpNames[1]>>
         /\ IsDir(disk, merged_source)
         /\ \A q \in Under(disk, merged_source) :
              LET rel == InMerged(q)
              IN \/ rel = <<>>
                 \/ /\ rel[1] = "java"
                    /\ \/ IsDir(TF_JAVA_SOURCE_PATH, Tail(rel)) /\ IsDir(disk, q)
                       \/ /\ IsFile(TF_JAVA_SOURCE_PATH, Tail(rel)) /\ IsFile(disk, q)
                          /\ disk.f[q] = TF_JAVA_SOURCE_PATH.f[Tail(rel)]
                 \/ /\ IsPrefix(NS \o <<"ops">>, rel)
                    /\ IsFile(disk, q) => disk.f[q] = "ops"

\* the comprehensive build raised at the proto layer, with the core API already in the
\* first tree, and the doc generator got a tree with the primary sources and the ops
C1_Witness ==
  /\ pc = "done"
  /\ Happened("core", "ok") /\ Happened("proto", "raise")
  /\ IsFile(disk, merged_source \o NS \o <<"Tensor.java">>)
  /\ IsFile(disk, merged_source \o NS \o <<"ops", "Ops.java">>)

(***************************************************************************)
(* C2, as claimed: no step of the generated-ops augmentation (yes,         *)
(* configure, bazel, the copy of the ops) raises out of                    *)
(* build_traditional_tensorflow_java_docs: the exception never leaves main *)
(* from there.                                                             *)
(***************************************************************************)
C2_AugmentationNeverAborts ==
  pc = "raised" => exc.at \notin AugmentationSteps

(***************************************************************************)
(* C4, as claimed: every layer after the core API is merged into a         *)
(* destination that exists: none of them fails because its destination     *)
(* exists.                                                                 *)
(***************************************************************************)
C4_LaterLayersOverlay ==
  ~(exc.at \in LaterLayers /\ exc.type = "FileExistsError")

(***************************************************************************)
(* C6: the except clause of main runs at most once, right after a step of  *)
(* the comprehensive build raised, and is followed by the degraded build,  *)
(* which runs only then; an exception raised in the degraded build ends    *)
(* the run, with the doc generator never called; the doc generator is      *)
(* called at most once, and only right after a build returned.             *)
(***************************************************************************)
C6_FallbackOnce ==
  /\ Count("except") <= 1
  /\ Count("traditional") <= Count("except")
  /\ Count("gen_java_docs") <= 1
  /\ pc = "raised" => (Count("gen_java_docs") = 0 /\ Count("except") = 1)
  /\ \A i \in 1..Len(trace) :
       /\ (trace[i].out = "raise" /\ InSeq(trace[i].step, ComprehensiveSteps)) =>
            IF i = Len(trace) THEN pc = "except" ELSE trace[i + 1].step = "except"
       /\ (trace[i].out = "raise" /\ InSeq(trace[i].step, TraditionalSteps)) =>
            (i = Len(trace) /\ pc = "raised")
       /\ trace[i].step = "except" =>
            /\ i > 1 /\ trace[i - 1].out = "raise"
            /\ InSeq(trace[i - 1].step, ComprehensiveSteps)
            /\ IF i = Len(trace) THEN pc = "traditional"
               ELSE trace[i + 1].step = "traditional"
       /\ trace[i].step = "traditional" => (i > 1 /\ trace[i - 1].step = "except")
       /\ trace[i].step = "gen_java_docs" => (i > 1 /\ trace[i - 1].step = "return")

\* the comprehensive build raised, main fell back, and the degraded build raised too
C6_Witness ==
  /\ pc = "raised"
  /\ Count("except") = 1
  /\ exc.at = "copy_ops"

(***************************************************************************)
(* C7, as claimed: when the doc generator is called, the directory passed  *)
(* as source_path, merged_source/java, exists.                             *)
(***************************************************************************)
C7_SourcePathExists ==
  pc = "done" => IsDir(disk, merged_source \o <<"java">>)

\* no layer of the checkouts holds an entry at the destination of another layer
DistinctDestinations ==
  \A l \in {"core", "gen"} :
    \A q \in {<<"proto">>, <<"exceptions">>, <<"internal">>, <<"framework">>, <<"ndarray">>} :
      ~Exists(repos["tfjava"].wt[l], q)

\* the layer's subtree exists and every entry of it is in the merged tree
Placed(name, layer) ==
  LET src == repos[name].wt[layer]
  IN \A r \in src.d \cup DOMAIN src.f : Exists(disk, merged_source \o Dest(layer) \o r)

(***************************************************************************)
(* C10, as claimed: with both repositories synchronized (and no two layers *)
(* sharing a destination), whichever subtrees are absent, no step of the   *)
(* comprehensive build raises, and once it has returned every subtree that *)
(* is present is in the merged tree.                                       *)
(***************************************************************************)
C10_AbsentSubtreesSkipped ==
  (Happened("checkout_ndarray", "ok") /\ DistinctDestinations) =>
    /\ ~FellBack /\ pc # "except"
    /\ AtDocGen =>
         /\ \A l \in Layers("tfjava") : Placed("tfjava", l)
         /\ Placed("ndarray", "ndarray")

(***************************************************************************)
(* C3: after overlay(from_root, to_root) returns, every file under         *)
(* from_root has a counterpart with the same content at the same relative  *)
(* path under to_root, and every file that was under to_root before the    *)
(* call is still a file there.                                             *)
(***************************************************************************)
C3_OverlayPlacesEveryFile ==
  (h.op = "overlay" /\ h.ok) =>
    /\ \A r \in DOMAIN h.from.f :
         IsFile(disk, h.to_root \o r) /\ disk.f[h.to_root \o r] = h.from.f[r]
    /\ \A q \in DOMAIN h.pre.f : IsPrefix(h.to_root, q) => IsFile(disk, q)

\* an overlay that returned after overwriting a file with other content, next to a
\* file of the destination that the source does not have
C3_Witness ==
  /\ h.op = "overlay" /\ h.ok
  /\ \E r \in DOMAIN h.from.f :
       IsFile(h.pre, h.to_root \o r) /\ h.pre.f[h.to_root \o r] # h.from.f[r]
  /\ \E q \in DOMAIN h.pre.f :
       IsPrefix(h.to_root, q) /\ ~IsFile(h.from, SubSeq(q, Len(h.to_root) + 1, Len(q)))

(***************************************************************************)
(* C5, as claimed: copytree into a destination path that exists fails and  *)
(* leaves the disk as it was; into a destination path that does not exist  *)
(* it succeeds and the destination tree equals the source tree.            *)
(***************************************************************************)
C5_AsClaimed ==
  h.op = "copytree" =>
    /\ Exists(h.pre, h.to_root) => (~h.ok /\ disk = h.pre)
    /\ ~Exists(h.pre, h.to_root) => (h.ok /\ Subtree(disk, h.to_root) = h.from)

(***************************************************************************)
(* C5, amended: copytree into a destination path that exists fails and     *)
(* leaves the disk as it was; into a destination path that does not exist  *)
(* and has no regular file among its ancestors it succeeds and the         *)
(* destination tree equals the source tree; below a regular file it fails  *)
(* and leaves the disk as it was.                                          *)
(***************************************************************************)
C5_ReplaceTree ==
  h.op = "copytree" =>
    LET below_file == \E a \in Ancestors(h.to_root) : IsFile(h.pre, a)
    IN /\ (Exists(h.pre, h.to_root) \/ below_file) => (~h.ok /\ disk = h.pre)
       /\ (~Exists(h.pre, h.to_root) /\ ~below_file) =>
            (h.ok /\ Subtree(disk, h.to_root) = h.from)

\* a copytree that succeeded: a source with a file in a subdirectory, copied to a path
\* whose parent had to be made
C5_Witness ==
  /\ h.op = "copytree" /\ h.ok
  /\ ~Exists(h.pre, Parent(h.to_root))
  /\ \E r \in DOMAIN h.from.f : Len(r) = 2 /\ IsFile(disk, h.to_root \o r)

(***************************************************************************)
(* C8: a call of clone_or_update_repo attempts clone then checkout of the  *)
(* pinned revision when the local path did not exist at the call, fetch    *)
(* then checkout when it did, and nothing else; a failed operation is the  *)
(* last one of the call; the call returns normally exactly when the        *)
(* checkout succeeded, and then the pinned revision is checked out.        *)
(***************************************************************************)
C8_SyncSequence ==
  \A i \in 1..Len(calls) :
    LET c == calls[i]
    IN /\ Len(c.ops) \in 1..2
       /\ c.ops[1].op = (IF c.existed THEN "fetch" ELSE "clone")
       /\ Len(c.ops) = 1 => ~c.ops[1].ok
       /\ Len(c.ops) = 2 =>
            /\ c.ops[1].ok
            /\ c.ops[2].op = "checkout" /\ c.ops[2].rev = Version(c.repo)
       /\ \A k \in 1..Len(c.ops) : c.ops[k].repo = c.repo
       /\ c.ok <=> (Len(c.ops) = 2 /\ c.ops[2].ok)
       /\ c.ok => c.head # 0

\* a call that cloned and checked out, followed by a call that found the path and
\* whose fetch failed
C8_Witness ==
  /\ Len(calls) = 2
  /\ ~calls[1].existed /\ calls[1].ok
  /\ calls[2].existed /\ ~calls[2].ok /\ Len(calls[2].ops) = 1

\* the call after call i on the same repository (0: none)
NextCallOn(i) ==
  LET later == {j \in (i + 1)..Len(calls) : calls[j].repo = calls[i].repo}
  IN IF later = {} THEN 0 ELSE CHOOSE j \in later : \A k \in later : j <= k

(***************************************************************************)
(* C9: after a call of clone_or_update_repo that succeeded, the next call  *)
(* with the same arguments, the remote being reachable, succeeds and       *)
(* leaves the working copy at the commit the first call left it at.        *)
(***************************************************************************)
C9_SyncIdempotent ==
  \A i \in 1..Len(calls) :
    LET j == NextCallOn(i)
    IN (j # 0 /\ calls[i].ok /\ calls[j].reachable) =>
         (calls[j].ok /\ calls[j].head = calls[i].head)

\* two successful calls on one repository, the remote's revision moved in between
C9_Witness ==
  \E i \in 1..Len(calls) :
    LET j == NextCallOn(i)
    IN /\ j # 0 /\ calls[i].ok /\ calls[j].ok
       /\ remote[calls[i].repo] # calls[i].head

\* the destinations of the source's files that held a file before the call
Collisions(c) == {c.to_root \o r : r \in {x \in DOMAIN c.from.f : IsFile(c.pre, c.to_root \o x)}}

\* the mapping sequence ran to its end: A has no a/c, both later layers hold the file c
ScenarioRan ==
  /\ Len(calls) = 3 /\ calls[3].ok
  /\ ~Exists(calls[1].from, <<"a">> \o XFile)
  /\ IsFile(calls[2].from, XFile) /\ IsFile(calls[3].from, XFile)
  /\ calls[2].from.f[XFile] # calls[3].from.f[XFile]

\* in the scenario the last writer wins, the first overlay prints no warning for the
\* file and the second prints one
LastWriterWins ==
  ScenarioRan =>
    /\ IsFile(disk, SubRoot \o XFile)
    /\ disk.f[SubRoot \o XFile] = calls[3].from.f[XFile]
    /\ SubRoot \o XFile \notin Range(calls[2].notices)
    /\ Cardinality({k \in 1..Len(calls[3].notices) :
                      calls[3].notices[k] = SubRoot \o XFile}) = 1

OverlaidTwice(i) ==
  /\ i + 1 <= Len(calls)
  /\ calls[i].op = "overlay" /\ calls[i + 1].op = "overlay"
  /\ calls[i].from = calls[i + 1].from /\ calls[i].to_root = calls[i + 1].to_root
  /\ calls[i].ok

(***************************************************************************)
(* C12: an overlay run a second time with the source unchanged returns,    *)
(* leaves every file of the destination with the content it had after the  *)
(* first run, adds and removes no path, and prints one overwrite warning   *)
(* for every file of the source.                                           *)
(***************************************************************************)
C12_OverlayIdempotent ==
  \A i \in 1..Len(calls) :
    OverlaidTwice(i) =>
      LET c == calls[i + 1]
      IN /\ c.ok
         /\ c.post = c.pre
         /\ Range(c.notices) = {c.to_root \o r : r \in DOMAIN c.from.f}
         /\ Len(c.notices) = Cardinality(DOMAIN c.from.f)

\* a source with a file in a directory and a file beside it, overlaid twice: the first
\* run wrote where nothing was, the second warned of both files
C12_Witness ==
  /\ Len(calls) = 3 /\ OverlaidTwice(2)
  /\ calls[2].notices = <<>>
  /\ calls[2].post # calls[2].pre
  /\ IsFile(calls[2].from, <<"a", "c">>) /\ IsFile(calls[2].from, <<"c">>)
  /\ Len(calls[3].notices) = 2

\* the operations of the kinds ops attempted on a repository so far
Attempts(name, ops) ==
  Cardinality({i \in 1..Len(gitlog) : gitlog[i].repo = name /\ gitlog[i].op \in ops})

(***************************************************************************)
(* C13: in a run of main each repository is synchronized at most once:     *)
(* one clone or fetch and one checkout at most for each; a revision-       *)
(* control operation that failed is the last one of the run; and no step   *)
(* of the run after main's except clause synchronizes a repository.        *)
(***************************************************************************)
C13_NoRetry ==
  /\ Count("checkout_tensorflow_java") <= 1
  /\ Count("checkout_ndarray") <= 1
  /\ \A name \in Repos :
       /\ Attempts(name, {"clone", "fetch"}) <= 1
       /\ Attempts(name, {"checkout"}) <= 1
  /\ \A i \in 1..Len(gitlog) : ~gitlog[i].ok => i = Len(gitlog)
  /\ \A i \in 1..Len(trace) :
       trace[i].step = "except" =>
         \A j \in i..Len(trace) :
           trace[j].step \notin {"checkout_tensorflow_java", "checkout_ndarray"}

\* the first repository was cloned and checked out, the clone of the second failed,
\* and the run went through the degraded build to the doc generator
C13_Witness ==
  /\ pc = "done" /\ FellBack
  /\ Len(gitlog) = 3
  /\ gitlog[1].op = "clone" /\ gitlog[2].op = "checkout" /\ gitlog[2].ok
  /\ gitlog[3].repo = "ndarray" /\ ~gitlog[3].ok

\* the warnings printed by the step being taken
NewNotices == {notices'[k] : k \in (Len(notices) + 1)..Len(notices')}

\* every file of the merged tree is still there after the step, with the content it had
\* or with a warning printed for it
NoSilentOverwrite ==
  \A q \in DOMAIN disk.f :
    IsPrefix(merged_source, q) =>
      /\ q \in DOMAIN disk'.f
      /\ disk'.f[q] # disk.f[q] => q \in NewNotices

(***************************************************************************)
(* C15: no step of build_comprehensive_java_docs overwrites a file of the  *)
(* merged tree without an overwrite warning printed for its path: a step   *)
(* writes where no file is, or overwrites with a warning (overlay), or     *)
(* fails with the files as they were (copytree).                           *)
(***************************************************************************)
C15_NoSilentOverwrite ==
  [][InSeq(pc, ComprehensiveSteps) => NoSilentOverwrite]_vars

\* the generated sources have overwritten a file of the core API, with a warning
C15_Witness ==
  /\ Happened("core", "ok") /\ Happened("gen", "ok")
  /\ IsFile(disk, merged_source \o NS \o <<"Tensor.java">>)
  /\ disk.f[merged_source \o NS \o <<"Tensor.java">>] = "gen"
  /\ notices = <<merged_source \o NS \o <<"Tensor.java">>>>

(***************************************************************************)
(* C16: the steps of build_comprehensive_java_docs run in one order: the   *)
(* namespace directories are made, the two repositories are synchronized,  *)
(* then the layers are placed: core API, generated, proto, exceptions,     *)
(* C-API, framework, NDArray. A step runs only after the step before it    *)
(* went through, so no layer is placed before both synchronizations have,  *)
(* and nothing of the build runs after a step that raised; when a          *)
(* synchronization raised, the merged tree holds the namespace directories *)
(* java and java/org and nothing else.                                     *)
(***************************************************************************)
C16_FixedOrder ==
  /\ \A i \in 1..Len(trace) :
       InSeq(trace[i].step, ComprehensiveSteps) =>
         /\ i >= 2 /\ i - 1 <= Len(ComprehensiveSteps)
         /\ trace[i].step = ComprehensiveSteps[i - 1]
         /\ \A j \in 1..(i - 1) : trace[j].out \in {"ok", "skip"}
  /\ (pc = "except" /\ exc.at \in {"checkout_tensorflow_java", "checkout_ndarray"}) =>
       /\ Under(disk, merged_source) =
            {merged_source, merged_source \o <<"java">>, merged_source \o <<"java", "org">>}
       /\ \A q \in Under(disk, merged_source) : IsDir(disk, q)

\* the first repository was synchronized and the second was not: the build stopped there
C16_Witness ==
  /\ pc = "except" /\ exc.at = "checkout_ndarray"
  /\ Happened("checkout_tensorflow_java", "ok")
  /\ Len(trace) = 4

\* the NDArray repository has been synchronized to its pinned revision
NdarraySynchronized ==
  /\ repos["ndarray"].exists /\ repos["ndarray"].head # 0
  /\ \E i \in 1..Len(gitlog) :
       gitlog[i] = GitOp("checkout", "ndarray", NDARRAY_VERSION, TRUE)

(***************************************************************************)
(* C17: with --tensorflow_java_repo given, no clone, fetch or checkout is  *)
(* ever performed on the TensorFlow Java repository and no step changes    *)
(* its working copy, while checkout_ndarray still runs in the same build   *)
(* and, when it returns, has the NDArray repository checked out at its     *)
(* pinned revision.                                                        *)
(***************************************************************************)
C17_OverrideBypassesSync ==
  /\ [](FLAGS.tensorflow_java_repo =>
          /\ \A i \in 1..Len(gitlog) : gitlog[i].repo # "tfjava"
          /\ (Happened("checkout_tensorflow_java", "skip") /\ pc # "checkout_ndarray") =>
               Count("checkout_ndarray") = 1
          /\ Happened("checkout_ndarray", "ok") => NdarraySynchronized)
  /\ [][FLAGS.tensorflow_java_repo => repos'["tfjava"] = repos["tfjava"]]_vars

\* a run with the override that went through the comprehensive build: the local
\* checkout's core API is in the merged tree and the NDArray repository was cloned
C17_Witness ==
  /\ FLAGS.tensorflow_java_repo /\ pc = "done" /\ ~FellBack
  /\ repos["tfjava"].exists /\ repos["tfjava"].head = 0
  /\ IsFile(disk, merged_source \o NS \o <<"Tensor.java">>)
  /\ NdarraySynchronized /\ gitlog[1].op = "clone"

\* the file a call of process_file found
FileBefore(c) == [readable |-> h.perm.readable, writable |-> h.perm.writable,
                  content |-> c.before]

\* the summary counts the calls of process_file that returned True
SummaryCounts ==
  pc \in {"summary", "exit"} =>
    h.files_updated = Cardinality({i \in 1..Len(calls) : calls[i].ret})

(***************************************************************************)
(* C14, as claimed: a call of process_file in a dry run leaves the file's  *)
(* content as it was, and returns True (and is counted in the summary)     *)
(* exactly when the call without dry_run changes the file.                 *)
(***************************************************************************)
C14_AsClaimed ==
  /\ SummaryCounts
  /\ \A i \in 1..Len(calls) :
       (calls[i].called /\ h.dry_run) =>
         /\ calls[i].after = calls[i].before
         /\ calls[i].ret <=>
              (process_file(FileBefore(calls[i]), FALSE).file.content # calls[i].before)

(***************************************************************************)
(* C14, amended: a call of process_file in a dry run leaves the file's     *)
(* content as it was, and returns True (and is counted in the summary)     *)
(* exactly when the file can be read and the updated text differs from its *)
(* content; for a file that can be written that is exactly when the call   *)
(* without dry_run changes the file, and a file that cannot be written is  *)
(* left as it is by the call without dry_run, which returns False.         *)
(***************************************************************************)
C14_DryRunWritesNothing ==
  /\ SummaryCounts
  /\ \A i \in 1..Len(calls) :
       (calls[i].called /\ h.dry_run) =>
         LET c == calls[i]
             wet == process_file(FileBefore(c), FALSE)
         IN /\ c.after = c.before
            /\ disk.f[c.path] = c.before
            /\ c.ret <=> (h.perm.readable /\ updated_content(c.before) # c.before)
            /\ h.perm.writable => (c.ret <=> wet.file.content # c.before)
            /\ ~h.perm.writable => (wet.file.content = c.before /\ ~wet.ret)

\* a dry run over a file with an old version in it, given twice: both calls returned
\* True, the summary counts two files, and the file still holds the old version
C14_Witness ==
  /\ pc = "exit" /\ h.dry_run /\ h.perm.writable
  /\ h.files_updated = 2
  /\ calls[1].out = "would update" /\ calls[2].out = "would update"
  /\ disk.f[DocPath] = VersionOpen \o OLD_VERSION

(***************************************************************************)
(* C18, as claimed: the text process_file has written is left as it is by  *)
(* another pass of update_file_content and                                 *)
(* update_java_requirements_section, and the next call of process_file on  *)
(* the file, not a dry run, reports no changes and returns False.          *)
(***************************************************************************)
C18_UpdaterIdempotent ==
  \A i \in 1..Len(calls) :
    calls[i].out = "updated" =>
      /\ updated_content(calls[i].after) = calls[i].after
      /\ (i < Len(calls) /\ calls[i + 1].path = calls[i].path) =>
           (~calls[i + 1].ret /\ calls[i + 1].out = "no changes")

====
